---------------------------- MODULE Spec2Model ----------------------------
(***************************************************************************)
(* Model of tasks/scheduler.go: the concurrent DeliverTx scheduler.        *)
(*                                                                         *)
(* ProcessAll builds one task per request and loops                        *)
(*   executeAll (errgroup of workers + one producer over a buffered chan)  *)
(*   validateAll (sequential), retry step (sequential)                     *)
(* until validateAll reports nothing, then collects the responses.         *)
(*                                                                         *)
(* Task pointers are modelled as positions 1..Len(tasks) of the sequence   *)
(* `tasks`; the Go field Index keeps its 0-based value.                    *)
(***************************************************************************)
EXTENDS Integers, Sequences, FiniteSets, TLC

\* ------------------------------------------------------------------ bounds
MaxBatch == 2        \* longest request batch handed to ProcessAll
MaxWorkers == 2      \* largest configured worker count
MaxPhaseTasks == 2   \* largest task set handed directly to validateAll
MaxInc == 1          \* largest incarnation of a task set handed to validateAll

\* --------------------------------------------------------------- constants
statusPending == "pending"
statusExecuted == "executed"
statusAborted == "aborted"
statusValidated == "validated"
Statuses == {statusPending, statusExecuted, statusAborted, statusValidated}

\* error values: nil, and context.Canceled as returned by gCtx.Err()
NoError == "nil"
Canceled == "context canceled"

\* The injected execution function.  Request "txA" neither reads
\* nor writes shared state; "incr" reads the shared counter, returns the value
\* it read and writes the counter back plus one.
Requests == {"txA", "incr"}
WorkerCounts == (0 - 1) .. MaxWorkers

NilResponse == [tx |-> "nil", val |-> 0 - 1]

VARIABLES
    reqs,        \* ProcessAll argument: the ordered batch
    sworkers,    \* scheduler.workers
    store,       \* state shared by the deliverTx calls (behind ctx)
    ctxDone,     \* ctx.Context() has been cancelled
    pc,          \* position of ProcessAll
    tasks,       \* the deliverTxTask objects
    toExecute,   \* the slice toExecute (task positions)
    err,         \* value returned by executeAll
    ret,         \* value returned by ProcessAll
    nworkers,    \* executeAll's local `workers`
    ch,          \* buffered channel content
    chClosed,    \* close(ch) has run
    gDone,       \* gCtx.Done() is closed
    grpErr,      \* errgroup's first error
    wpc,         \* worker goroutines: position
    wtask,       \* worker goroutines: local `task` (0 = none)
    wresp,       \* worker goroutines: local `resp`
    ppc,         \* producer goroutine: position
    pidx,        \* producer goroutine: range position
    calls,       \* history: deliverTx calls per task in the current round
    produced,    \* history: response of the latest deliverTx call per task
    execIncs,    \* history: incarnations under which each task was executed
    log          \* history: phase counts, how the run began, when ctx was cancelled

progVars == <<reqs, sworkers, store, ctxDone, pc, tasks, toExecute, err, ret>>
grpVars == <<nworkers, ch, chClosed, gDone, grpErr, wpc, wtask, wresp, ppc, pidx>>
histVars == <<calls, produced, execIncs, log>>
vars == <<progVars, grpVars, histVars>>

TaskIds == 1 .. Len(tasks)
Workers == 1 .. nworkers

\* ------------------------------------------------------- pure operators
\* deliverTx(ctx, req): the response, and the shared state it leaves
DeliverTxResp(st, req) ==
    IF req = "incr" THEN [tx |-> req, val |-> st] ELSE [tx |-> req, val |-> 0]

DeliverTxStore(st, req) ==
    IF req = "incr" THEN st + 1 ELSE st

\* mutant of toTasks: the requests are attached in reverse order
toTasksReversed(rs) ==
    [i \in 1 .. Len(rs) |->
        [Status |-> statusPending, Index |-> i - 1, Incarnation |-> 0,
         Request |-> rs[Len(rs) + 1 - i], Response |-> NilResponse]]

\* toTasks: one pending task per request, Index = position in the batch
toTasks(rs) ==
    [i \in 1 .. Len(rs) |->
        [Status |-> statusPending, Index |-> i - 1, Incarnation |-> 0,
         Request |-> rs[i], Response |-> NilResponse]]

\* mutant of collectResponses: the responses are collected last task first
collectResponsesReversed(ts) ==
    [i \in 1 .. Len(ts) |-> ts[Len(ts) + 1 - i].Response]

\* collectResponses: *t.Response of every task in slice order
collectResponses(ts) ==
    [i \in 1 .. Len(ts) |-> ts[i].Response]

\* collectResponses dereferences a nil pointer
collectPanics(ts) ==
    \E i \in 1 .. Len(ts) : ts[i].Response = NilResponse


\* validateAll's loop from position i on: aborted tasks are appended to res,
\* every other task is set to validated
RECURSIVE validateFrom(_, _, _)
validateFrom(ts, i, res) ==
    IF i > Len(ts) THEN [tasks |-> ts, res |-> res]
    ELSE IF ts[i].Status = statusAborted
         THEN validateFrom(ts, i + 1, Append(res, i))
         ELSE validateFrom([ts EXCEPT ![i].Status = statusValidated], i + 1, res)

\* mutant of validateAll: the first task is not visited
validateAllSkipFirst(ts) == validateFrom(ts, 2, <<>>)

\* mutant of validateAll: a task executed under incarnation 0 is reported too
validateAllFlagFirst(ts) ==
    LET flagged(i) == \/ ts[i].Status = statusAborted
                      \/ ts[i].Status = statusExecuted /\ ts[i].Incarnation = 0
    IN [tasks |-> [i \in 1 .. Len(ts) |->
                     IF flagged(i) THEN ts[i]
                     ELSE [ts[i] EXCEPT !.Status = statusValidated]],
        res |-> SelectSeq([i \in 1 .. Len(ts) |-> i], flagged)]

validateAll(ts) == validateFrom(ts, 1, <<>>)

\* ProcessAll's retry loop over toExecute from position k on
RECURSIVE retryFrom(_, _, _)
retryFrom(ts, te, k) ==
    IF k > Len(te) THEN ts
    ELSE retryFrom([ts EXCEPT ![te[k]].Incarnation = @ + 1,
                              ![te[k]].Status = statusPending], te, k + 1)

\* mutant of retryStep: the incarnation is reset instead of incremented
retryStepReset(ts, te) ==
    [t \in 1 .. Len(ts) |->
        IF t \in {te[k] : k \in 1 .. Len(te)}
        THEN [ts[t] EXCEPT !.Incarnation = 0, !.Status = statusPending]
        ELSE ts[t]]

retryStep(ts, te) == retryFrom(ts, te, 1)

\* mutant of effectiveWorkers: a workers value < 1 means a single worker
effectiveWorkersSingle(w, n) == IF w < 1 THEN 1 ELSE w

\* mutant of effectiveWorkers: one worker more than configured
effectiveWorkersExtra(w, n) == IF w < 1 THEN n ELSE w + 1

\* executeAll's worker count: a workers value < 1 means one worker per task
effectiveWorkers(w, n) == IF w < 1 THEN n ELSE w

Range(s) == {s[i] : i \in 1 .. Len(s)}

NoReturn == [returned |-> FALSE, respNil |-> TRUE, resp |-> <<>>, err |-> NoError]
\* exec, valid, retry: executeAll, validateAll and retry steps begun so far;
\* fromEntry: the run began at ProcessAll's entry; cancelMid: ctx was cancelled
\* during an execution round one of whose tasks was not yet executed
\* order: the tasks in the order deliverTx was called on them
NoLog ==
    [exec |-> 0, valid |-> 0, retry |-> 0, fromEntry |-> TRUE, cancelMid |-> FALSE,
     order |-> <<>>]

\* ------------------------------------------------------------------- Init
\* NewScheduler(workers, deliverTx) followed by the call ProcessAll(ctx, reqs)
InitGroup ==
    /\ nworkers = 0
    /\ ch = <<>>
    /\ chClosed = FALSE
    /\ gDone = FALSE
    /\ grpErr = NoError
    /\ wpc = <<>>
    /\ wtask = <<>>
    /\ wresp = <<>>
    /\ ppc = "idle"
    /\ pidx = 0

Init ==
    /\ reqs \in UNION {[1 .. n -> Requests] : n \in 0 .. MaxBatch}
    /\ sworkers \in WorkerCounts
    /\ store = 0
    /\ ctxDone = FALSE
    /\ pc = "entry"
    /\ tasks = <<>>
    /\ toExecute = <<>>
    /\ err = NoError
    /\ ret = NoReturn
    /\ InitGroup
    /\ calls = <<>>
    /\ produced = <<>>
    /\ execIncs = <<>>
    /\ log = NoLog

\* ----------------------------------------------------- ProcessAll actions
\* lines 65-66: tasks := toTasks(reqs); toExecute := tasks
ProcessAllBegin ==
    /\ pc = "entry"
    /\ tasks' = toTasks(reqs)
    /\ toExecute' = [i \in 1 .. Len(reqs) |-> i]
    /\ pc' = "loop"
    /\ calls' = [i \in 1 .. Len(reqs) |-> 0]
    /\ produced' = [i \in 1 .. Len(reqs) |-> NilResponse]
    /\ execIncs' = [i \in 1 .. Len(reqs) |-> <<>>]
    /\ UNCHANGED <<reqs, sworkers, store, ctxDone, err, ret, grpVars, log>>

\* line 67 taken, line 70 and lines 112-158: the channel, the errgroup with its
\* derived context, the workers and the producer are created
ExecuteAllStartWith(cfg) ==
    /\ pc = "loop"
    /\ Len(toExecute) > 0
    /\ pc' = "wait"
    /\ nworkers' = effectiveWorkers(cfg, Len(toExecute))
    /\ ch' = <<>>
    /\ chClosed' = FALSE
    /\ gDone' = ctxDone
    /\ grpErr' = NoError
    /\ wpc' = [w \in 1 .. nworkers' |-> "select"]
    /\ wtask' = [w \in 1 .. nworkers' |-> 0]
    /\ wresp' = [w \in 1 .. nworkers' |-> NilResponse]
    /\ ppc' = "send"
    /\ pidx' = 1
    /\ calls' = [i \in TaskIds |-> 0]
    /\ log' = [log EXCEPT !.exec = @ + 1]
    /\ UNCHANGED <<reqs, sworkers, store, ctxDone, tasks, toExecute, err, ret>>
    /\ UNCHANGED <<produced, execIncs>>

ExecuteAllStart == ExecuteAllStartWith(sworkers)


\* ------------------------------------------------- executeAll: goroutines
\* The goroutines run on their own: nothing but their own position and the
\* channel, the derived context and the errgroup decides what they can do.
AllReturned ==
    /\ ppc = "returned"
    /\ \A w \in Workers : wpc[w] = "returned"

\* errgroup.Go's wrapper: the first non-nil error is kept and cancels gCtx
groupError(e) == IF grpErr = NoError THEN e ELSE grpErr

\* mutant of WorkerCancelled: a cancelled worker returns nil
WorkerCancelledNil(w) ==
    /\ wpc[w] = "select"
    /\ gDone
    /\ wpc' = [wpc EXCEPT ![w] = "returned"]
    /\ UNCHANGED <<progVars, nworkers, ch, chClosed, gDone, grpErr, wtask, wresp,
                   ppc, pidx, histVars>>

\* lines 124-126: the worker's select takes <-gCtx.Done()
WorkerCancelled(w) ==
    /\ wpc[w] = "select"
    /\ gDone
    /\ wpc' = [wpc EXCEPT ![w] = "returned"]
    /\ grpErr' = groupError(Canceled)
    /\ UNCHANGED <<progVars, nworkers, ch, chClosed, gDone, wtask, wresp, ppc, pidx,
                   histVars>>

\* mutant of WorkerReceive: the task is read but stays in the channel
WorkerReceiveKeep(w) ==
    /\ wpc[w] = "select"
    /\ ch # <<>>
    /\ wtask' = [wtask EXCEPT ![w] = Head(ch)]
    /\ wpc' = [wpc EXCEPT ![w] = "deliver"]
    /\ UNCHANGED <<progVars, nworkers, ch, chClosed, gDone, grpErr, wresp, ppc, pidx,
                   histVars>>

\* line 127 with ok = true: the worker's select receives the next task
WorkerReceive(w) ==
    /\ wpc[w] = "select"
    /\ ch # <<>>
    /\ wtask' = [wtask EXCEPT ![w] = Head(ch)]
    /\ ch' = Tail(ch)
    /\ wpc' = [wpc EXCEPT ![w] = "deliver"]
    /\ UNCHANGED <<progVars, nworkers, chClosed, gDone, grpErr, wresp, ppc, pidx,
                   histVars>>

\* lines 127-130 with ok = false: the channel is closed and drained
WorkerDrained(w) ==
    /\ wpc[w] = "select"
    /\ ch = <<>>
    /\ chClosed
    /\ wpc' = [wpc EXCEPT ![w] = "returned"]
    /\ UNCHANGED <<progVars, nworkers, ch, chClosed, gDone, grpErr, wtask, wresp,
                   ppc, pidx, histVars>>

\* line 135: resp := s.deliverTx(ctx, task.Request)
WorkerDeliver(w) ==
    /\ wpc[w] = "deliver"
    /\ LET t == wtask[w]
           r == DeliverTxResp(store, tasks[t].Request)
       IN /\ wresp' = [wresp EXCEPT ![w] = r]
          /\ store' = DeliverTxStore(store, tasks[t].Request)
          /\ calls' = [calls EXCEPT ![t] = @ + 1]
          /\ produced' = [produced EXCEPT ![t] = r]
          /\ execIncs' = [execIncs EXCEPT ![t] = Append(@, tasks[t].Incarnation)]
          /\ log' = [log EXCEPT !.order = Append(@, t)]
    /\ wpc' = [wpc EXCEPT ![w] = "setStatus"]
    /\ UNCHANGED <<reqs, sworkers, ctxDone, pc, tasks, toExecute, err, ret,
                   nworkers, ch, chClosed, gDone, grpErr, wtask, ppc, pidx>>

\* mutant of WorkerSetStatus: the worker marks the task validated itself
WorkerSetStatusValidated(w) ==
    /\ wpc[w] = "setStatus"
    /\ tasks' = [tasks EXCEPT ![wtask[w]].Status = statusValidated]
    /\ wpc' = [wpc EXCEPT ![w] = "setResponse"]
    /\ UNCHANGED <<reqs, sworkers, store, ctxDone, pc, toExecute, err, ret,
                   nworkers, ch, chClosed, gDone, grpErr, wtask, wresp, ppc, pidx,
                   histVars>>

\* line 142: task.Status = statusExecuted
WorkerSetStatus(w) ==
    /\ wpc[w] = "setStatus"
    /\ tasks' = [tasks EXCEPT ![wtask[w]].Status = statusExecuted]
    /\ wpc' = [wpc EXCEPT ![w] = "setResponse"]
    /\ UNCHANGED <<reqs, sworkers, store, ctxDone, pc, toExecute, err, ret,
                   nworkers, ch, chClosed, gDone, grpErr, wtask, wresp, ppc, pidx,
                   histVars>>

\* mutant of WorkerSetResponse: a response already stored is kept
WorkerSetResponseKeep(w) ==
    /\ wpc[w] = "setResponse"
    /\ tasks' = [tasks EXCEPT ![wtask[w]].Response =
                    IF @ = NilResponse THEN wresp[w] ELSE @]
    /\ wpc' = [wpc EXCEPT ![w] = "select"]
    /\ wtask' = [wtask EXCEPT ![w] = 0]
    /\ wresp' = [wresp EXCEPT ![w] = NilResponse]
    /\ UNCHANGED <<reqs, sworkers, store, ctxDone, pc, toExecute, err, ret,
                   nworkers, ch, chClosed, gDone, grpErr, ppc, pidx, histVars>>

\* line 143: task.Response = &resp, then back to the select
WorkerSetResponse(w) ==
    /\ wpc[w] = "setResponse"
    /\ tasks' = [tasks EXCEPT ![wtask[w]].Response = wresp[w]]
    /\ wpc' = [wpc EXCEPT ![w] = "select"]
    /\ wtask' = [wtask EXCEPT ![w] = 0]
    /\ wresp' = [wresp EXCEPT ![w] = NilResponse]
    /\ UNCHANGED <<reqs, sworkers, store, ctxDone, pc, toExecute, err, ret,
                   nworkers, ch, chClosed, gDone, grpErr, ppc, pidx, histVars>>

\* lines 150-155: the producer's select takes ch <- task (the buffer holds
\* len(tasks) entries, so the send never blocks)
ProducerSend ==
    /\ ppc = "send"
    /\ pidx <= Len(toExecute)
    /\ Len(ch) < Len(toExecute)
    /\ ch' = Append(ch, toExecute[pidx])
    /\ pidx' = pidx + 1
    /\ UNCHANGED <<progVars, nworkers, chClosed, gDone, grpErr, wpc, wtask, wresp,
                   ppc, histVars>>

\* lines 152-153 and 149: the producer's select takes <-gCtx.Done(); the
\* deferred close(ch) runs
ProducerCancelled ==
    /\ ppc = "send"
    /\ pidx <= Len(toExecute)
    /\ gDone
    /\ ppc' = "returned"
    /\ chClosed' = TRUE
    /\ grpErr' = groupError(Canceled)
    /\ UNCHANGED <<progVars, nworkers, ch, gDone, wpc, wtask, wresp, pidx, histVars>>

\* mutant of ProducerFinish: the producer returns without closing the channel
ProducerFinishNoClose ==
    /\ ppc = "send"
    /\ pidx > Len(toExecute)
    /\ ppc' = "returned"
    /\ UNCHANGED <<progVars, nworkers, ch, chClosed, gDone, grpErr, wpc, wtask, wresp,
                   pidx, histVars>>

\* lines 157 and 149: the range is exhausted, return nil, close(ch)
ProducerFinish ==
    /\ ppc = "send"
    /\ pidx > Len(toExecute)
    /\ ppc' = "returned"
    /\ chClosed' = TRUE
    /\ UNCHANGED <<progVars, nworkers, ch, gDone, grpErr, wpc, wtask, wresp, pidx,
                   histVars>>

\* mutant of ExecuteAllReturn: the wait ends at the first error
ExecuteAllReturnEarly ==
    /\ pc = "wait"
    /\ AllReturned \/ grpErr # NoError
    /\ err' = grpErr
    /\ gDone' = TRUE
    /\ pc' = "checkErr"
    /\ UNCHANGED <<reqs, sworkers, store, ctxDone, tasks, toExecute, ret,
                   nworkers, ch, chClosed, grpErr, wpc, wtask, wresp, ppc, pidx,
                   histVars>>

\* lines 160-164: grp.Wait() returns once every goroutine has returned; it
\* cancels gCtx and hands back the first error
ExecuteAllReturn ==
    /\ pc = "wait"
    /\ AllReturned
    /\ err' = grpErr
    /\ gDone' = TRUE
    /\ pc' = "checkErr"
    /\ UNCHANGED <<reqs, sworkers, store, ctxDone, tasks, toExecute, ret,
                   nworkers, ch, chClosed, grpErr, wpc, wtask, wresp, ppc, pidx,
                   histVars>>

\* mutant of ProcessAllCheckErr: the error of executeAll is dropped
ProcessAllCheckErrIgnored ==
    /\ pc = "checkErr"
    /\ pc' = "validate"
    /\ UNCHANGED <<reqs, sworkers, store, ctxDone, tasks, toExecute, err, ret,
                   grpVars, histVars>>

\* lines 71-73: if err != nil { return nil, err }
ProcessAllCheckErr ==
    /\ pc = "checkErr"
    /\ IF err # NoError
       THEN /\ pc' = "done"
            /\ ret' = [returned |-> TRUE, respNil |-> TRUE, resp |-> <<>>, err |-> err]
       ELSE /\ pc' = "validate"
            /\ ret' = ret
    /\ UNCHANGED <<reqs, sworkers, store, ctxDone, tasks, toExecute, err,
                   grpVars, histVars>>

\* mutant of ProcessAllValidate: when a task is reported, every task is
ProcessAllValidateEvery ==
    /\ pc = "validate"
    /\ LET v == validateAll(tasks)
       IN /\ tasks' = v.tasks
          /\ toExecute' = IF v.res = <<>> THEN <<>> ELSE [i \in TaskIds |-> i]
    /\ err' = NoError
    /\ pc' = "retry"
    /\ log' = [log EXCEPT !.valid = @ + 1]
    /\ UNCHANGED <<reqs, sworkers, store, ctxDone, ret, grpVars,
                   calls, produced, execIncs>>

\* lines 77-80: toExecute, err = s.validateAll(ctx, tasks); err is always nil
ProcessAllValidate ==
    /\ pc = "validate"
    /\ LET v == validateAll(tasks)
       IN /\ tasks' = v.tasks
          /\ toExecute' = v.res
    /\ err' = NoError
    /\ pc' = "retry"
    /\ log' = [log EXCEPT !.valid = @ + 1]
    /\ UNCHANGED <<reqs, sworkers, store, ctxDone, ret, grpVars,
                   calls, produced, execIncs>>

\* lines 81-85: the retry step over toExecute
ProcessAllRetry ==
    /\ pc = "retry"
    /\ tasks' = retryStep(tasks, toExecute)
    /\ pc' = "loop"
    /\ log' = [log EXCEPT !.retry = @ + 1]
    /\ UNCHANGED <<reqs, sworkers, store, ctxDone, toExecute, err, ret, grpVars,
                   calls, produced, execIncs>>

\* line 67 not taken, line 87: return collectResponses(tasks), nil
\* (*t.Response on a nil pointer panics)
ProcessAllCollect ==
    /\ pc = "loop"
    /\ Len(toExecute) = 0
    /\ IF collectPanics(tasks)
       THEN /\ pc' = "panic"
            /\ ret' = ret
       ELSE /\ pc' = "done"
            /\ ret' = [returned |-> TRUE, respNil |-> FALSE,
                       resp |-> collectResponses(tasks), err |-> NoError]
    /\ UNCHANGED <<reqs, sworkers, store, ctxDone, tasks, toExecute, err,
                   grpVars, histVars>>

\* an execution round is running and deliverTx has not yet been called on one
\* of its tasks
RoundInProgress ==
    /\ pc = "wait"
    /\ \E t \in Range(toExecute) : calls[t] = 0

\* the caller cancels ctx.Context(); gCtx is derived from it
CancelCtx ==
    /\ ~ctxDone
    /\ pc \notin {"done", "panic"}
    /\ ctxDone' = TRUE
    /\ gDone' = IF pc = "wait" THEN TRUE ELSE gDone
    /\ log' = [log EXCEPT !.cancelMid = RoundInProgress]
    /\ UNCHANGED <<reqs, sworkers, store, pc, tasks, toExecute, err, ret,
                   nworkers, ch, chClosed, grpErr, wpc, wtask, wresp, ppc, pidx,
                   calls, produced, execIncs>>

Next ==
    \/ ProcessAllBegin
    \/ ExecuteAllStart
    \/ \E w \in Workers : WorkerCancelled(w)
    \/ \E w \in Workers : WorkerReceive(w)
    \/ \E w \in Workers : WorkerDrained(w)
    \/ \E w \in Workers : WorkerDeliver(w)
    \/ \E w \in Workers : WorkerSetStatus(w)
    \/ \E w \in Workers : WorkerSetResponse(w)
    \/ ProducerSend
    \/ ProducerCancelled
    \/ ProducerFinish
    \/ ExecuteAllReturn
    \/ ProcessAllCheckErr
    \/ ProcessAllValidate
    \/ ProcessAllRetry
    \/ ProcessAllCollect
    \/ CancelCtx

Spec == Init /\ [][Next]_vars

\* -------------------------------------------- phases on arbitrary task sets
\* validateAll, the retry step and executeAll take any task set: the run may
\* also begin at line 77 with tasks of every status.  A task that is not
\* pending was last executed under its current incarnation.
PhaseTasks ==
    UNION {[1 .. n -> [Status : Statuses, Incarnation : 0 .. MaxInc,
                       Request : Requests, HasResponse : BOOLEAN]]
           : n \in 1 .. MaxPhaseTasks}

InitPhase ==
    /\ \E ts \in PhaseTasks :
        /\ tasks = [i \in 1 .. Len(ts) |->
                     [Status |-> ts[i].Status, Index |-> i - 1,
                      Incarnation |-> ts[i].Incarnation, Request |-> ts[i].Request,
                      Response |-> IF ts[i].HasResponse
                                   THEN DeliverTxResp(0, ts[i].Request)
                                   ELSE NilResponse]]
        /\ reqs = [i \in 1 .. Len(ts) |-> ts[i].Request]
    /\ sworkers \in WorkerCounts
    /\ store = 0
    /\ ctxDone = FALSE
    /\ pc = "validate"
    /\ toExecute = <<>>
    /\ err = NoError
    /\ ret = NoReturn
    /\ InitGroup
    /\ calls = [i \in TaskIds |-> 0]
    /\ produced = [i \in TaskIds |-> tasks[i].Response]
    /\ execIncs = [i \in TaskIds |->
                     IF tasks[i].Status = statusPending THEN <<>>
                     ELSE <<tasks[i].Incarnation>>]
    /\ log = [NoLog EXCEPT !.fromEntry = FALSE]

SpecPhase == (Init \/ InitPhase) /\ [][Next]_vars

\* validateAll and the retry step alone, applied to every such task set
NextValidate ==
    \/ ProcessAllValidate
    \/ ProcessAllRetry

SpecValidate == InitPhase /\ [][NextValidate]_vars

\* The Go scheduler runs every runnable goroutine and every deliverTx call
\* returns: a step of the program that stays possible is eventually taken.
\* Nothing obliges the caller to cancel the context.
ProgramStep ==
    \/ ProcessAllBegin
    \/ ExecuteAllStart
    \/ \E w \in Workers : WorkerCancelled(w)
    \/ \E w \in Workers : WorkerReceive(w)
    \/ \E w \in Workers : WorkerDrained(w)
    \/ \E w \in Workers : WorkerDeliver(w)
    \/ \E w \in Workers : WorkerSetStatus(w)
    \/ \E w \in Workers : WorkerSetResponse(w)
    \/ ProducerSend
    \/ ProducerCancelled
    \/ ProducerFinish
    \/ ExecuteAllReturn
    \/ ProcessAllCheckErr
    \/ ProcessAllValidate
    \/ ProcessAllRetry
    \/ ProcessAllCollect

FairSpec == Init /\ [][Next]_vars /\ WF_vars(ProgramStep)


\* ===================================================================== claims
ReturnedOk == ret.returned /\ ret.err = NoError
ReturnedErr == ret.returned /\ ret.err # NoError

\* strict sequential execution: deliverTx on the requests one at a time, in
\* index order, each call seeing the state left by the calls before it
RECURSIVE sequentialFrom(_, _, _, _)
sequentialFrom(rs, i, st, out) ==
    IF i > Len(rs) THEN out
    ELSE sequentialFrom(rs, i + 1, DeliverTxStore(st, rs[i]),
                        Append(out, DeliverTxResp(st, rs[i])))

SequentialResponses(rs) == sequentialFrom(rs, 1, 0, <<>>)

\* no conflicts: no request's response changes when another request of the
\* batch has been executed before it
NoConflicts(rs) ==
    \A i, j \in 1 .. Len(rs) : \A st \in 0 .. Len(rs) :
        i # j => DeliverTxResp(DeliverTxStore(st, rs[j]), rs[i]) = DeliverTxResp(st, rs[i])

\* C1: whenever ProcessAll returns successfully the returned list has one
\* entry per request of the batch and entry i is the response that the
\* execution of request i produced, whatever the completion order.
C1_OutputByIndex ==
    ReturnedOk =>
        /\ ~ret.respNil
        /\ Len(ret.resp) = Len(reqs)
        /\ \A i \in 1 .. Len(reqs) :
            /\ ret.resp[i] = produced[i]
            /\ ret.resp[i].tx = reqs[i]

\* C1 witness: a successful return of a batch whose second task was executed
\* before its first
C1_Witness ==
    /\ ReturnedOk
    /\ Len(reqs) >= 2
    /\ log.order[1] = 2

\* C2: the responses ProcessAll returns equal those of strict sequential
\* execution, also when the execution function reads and writes shared state.
C2_SequentialEquivalence ==
    ReturnedOk => ret.resp = SequentialResponses(reqs)

\* C3: for a batch with no conflicts the output of ProcessAll equals the
\* output of strict sequential execution, for every worker count and
\* interleaving.
C3_NoConflictSequential ==
    (ReturnedOk /\ NoConflicts(reqs)) => ret.resp = SequentialResponses(reqs)

\* C3 witness: a conflict-free batch holding a state-reading request, run by
\* two workers and executed out of index order, has returned
C3_Witness ==
    /\ ReturnedOk
    /\ NoConflicts(reqs)
    /\ \E i \in 1 .. Len(reqs) : reqs[i] = "incr"
    /\ nworkers >= 2
    /\ Len(reqs) >= 2
    /\ log.order[1] = 2

\* C4: ProcessAll returns either the full response list and no error, or an
\* error and no list; once executeAll has returned an error the only step left
\* is the return of that error: no validation, retry step or further round.
C4_AllOrNothing ==
    /\ ret.returned =>
        \/ ret.err = NoError /\ ~ret.respNil /\ Len(ret.resp) = Len(reqs)
        \/ ret.err # NoError /\ ret.respNil /\ ret.resp = <<>>
    /\ err # NoError =>
        /\ pc \in {"checkErr", "done"}
        /\ log.valid = log.exec - 1
        /\ log.retry = log.exec - 1
        /\ pc = "done" => ret.err = err

\* C4 witness: an error was returned although a task had been executed
C4_Witness ==
    /\ ReturnedErr
    /\ \E t \in TaskIds : tasks[t].Status = statusExecuted

\* C5: if the context is cancelled while an execution round still has a task
\* that is not yet executed, ProcessAll returns a cancellation error and no
\* response list.
C5_CancelMidRoundFails ==
    (ret.returned /\ log.cancelMid) => (ret.err = Canceled /\ ret.respNil)

\* C6: in a round no task is held by two workers at once or pulled twice, and
\* a round that returns no error has called the execution function exactly
\* once for each task handed to it (and for no other task).
C6_ExactlyOnce ==
    /\ \A w1, w2 \in Workers :
        (w1 # w2 /\ wtask[w1] # 0) => wtask[w1] # wtask[w2]
    /\ \A w \in Workers : \A k \in 1 .. Len(ch) : wtask[w] # ch[k]
    /\ \A t \in TaskIds : calls[t] <= 1
    /\ (pc = "checkErr" /\ err = NoError) =>
        \A t \in TaskIds : calls[t] = IF t \in Range(toExecute) THEN 1 ELSE 0

\* C6 witness: a round of two tasks run by two workers returned no error
C6_Witness ==
    /\ pc = "checkErr"
    /\ err = NoError
    /\ nworkers >= 2
    /\ Len(toExecute) >= 2

\* C7: in every reachable state a task's response is present if and only if
\* its status is executed or validated.
C7_ResponseIffExecuted ==
    \A t \in TaskIds :
        (tasks[t].Response # NilResponse)
            <=> (tasks[t].Status \in {statusExecuted, statusValidated})


StrictlyIncreasing(q) == \A k \in 1 .. Len(q) - 1 : q[k] < q[k + 1]

\* C8: a task's index never changes and its incarnation changes only in the
\* retry step, which adds exactly one to every task it is given; the first
\* execution of a task of a run begun at ProcessAll's entry is under
\* incarnation 0 and every re-execution is under a strictly larger incarnation
\* than the execution before it.
C8_IncarnationMonotone ==
    /\ [](\A t \in TaskIds :
            /\ tasks[t].Index = t - 1
            /\ StrictlyIncreasing(execIncs[t])
            /\ (log.fromEntry /\ execIncs[t] # <<>>) => execIncs[t][1] = 0)
    /\ [][\A t \in TaskIds :
            /\ tasks'[t].Index = tasks[t].Index
            /\ IF pc = "retry" /\ pc' = "loop" /\ t \in Range(toExecute)
               THEN tasks'[t].Incarnation = tasks[t].Incarnation + 1
               ELSE tasks'[t].Incarnation = tasks[t].Incarnation]_vars

\* C8 witness: a task has been executed again, after a retry step
C8_Witness ==
    \E t \in TaskIds :
        /\ Len(execIncs[t]) = 2
        /\ tasks[t].Incarnation = execIncs[t][2]
        /\ log.retry >= 1

\* C9: with a configured worker count below 1 executeAll starts one worker
\* per task, and the step that starts the round is the very step a worker
\* count equal to the batch size takes (and conversely), so the two
\* configurations have the same runs from there on.
C9_NonPositiveIsBatchSized ==
    /\ []((pc = "wait" /\ sworkers < 1) =>
            (nworkers = Len(toExecute) /\ Len(wpc) = Len(toExecute)))
    /\ [][ExecuteAllStart =>
            /\ sworkers < 1 => ExecuteAllStartWith(Len(reqs))
            /\ sworkers = Len(reqs) =>
                \A c \in {n \in WorkerCounts : n < 1} : ExecuteAllStartWith(c)]_vars

\* C9 witness: with a worker count below 1 and a batch of two, two workers
\* are inside the execution function at once
C9_Witness ==
    /\ pc = "wait"
    /\ sworkers < 1
    /\ Len(reqs) = 2
    /\ \A w \in Workers : wpc[w] = "deliver"

AbortedInOrder(ts, te) ==
    /\ Range(te) = {t \in 1 .. Len(ts) : ts[t].Status = statusAborted}
    /\ StrictlyIncreasing(te)

\* C10: validateAll, on tasks of any statuses, returns exactly the aborted
\* tasks in index order and leaves them as they are, sets every other task to
\* validated changing nothing else of it, and returns no error.
C10_ValidateAll ==
    [][(pc = "validate" /\ pc' = "retry") =>
        /\ AbortedInOrder(tasks, toExecute')
        /\ Len(tasks') = Len(tasks)
        /\ \A t \in TaskIds :
            tasks'[t] = IF tasks[t].Status = statusAborted
                        THEN tasks[t]
                        ELSE [tasks[t] EXCEPT !.Status = statusValidated]
        /\ err' = NoError]_vars

\* C10 witness: validateAll has returned the second of two tasks, and has set
\* the first, which has no response, to validated
C10_Witness ==
    /\ pc = "retry"
    /\ ~log.fromEntry
    /\ log.valid = 1
    /\ toExecute = <<2>>
    /\ tasks[2].Status = statusAborted
    /\ tasks[1].Status = statusValidated
    /\ tasks[1].Response = NilResponse
    /\ tasks[1].Incarnation # tasks[2].Incarnation


\* C11: the execution round that follows a validation executes only tasks the
\* validation reported, and all of them when it returns no error; a validated
\* task is never executed or changed again; a successful return has one entry
\* per request, in index order.
C11_OnlyReportedReexecuted ==
    /\ []((log.valid >= 1 /\ pc \in {"wait", "checkErr"}) =>
            \A t \in TaskIds : calls[t] > 0 => t \in Range(toExecute))
    /\ []((log.valid >= 1 /\ pc = "checkErr" /\ err = NoError) =>
            \A t \in Range(toExecute) : calls[t] = 1)
    /\ [](ReturnedOk =>
            /\ Len(ret.resp) = Len(reqs)
            /\ \A i \in TaskIds : ret.resp[i] = tasks[i].Response)
    /\ [][/\ pc \in {"retry", "loop"} => toExecute' = toExecute
          /\ \A t \in TaskIds :
                tasks[t].Status = statusValidated =>
                    (tasks'[t] = tasks[t] /\ execIncs'[t] = execIncs[t])]_vars

\* C11 witness: of two tasks validation reported the second only; the second
\* alone was executed again and the list was returned
C11_Witness ==
    /\ ReturnedOk
    /\ ~log.fromEntry
    /\ Len(tasks) = 2
    /\ log.order = <<2>>
    /\ Len(execIncs[1]) = 1
    /\ Len(execIncs[2]) = 2
    /\ log.exec = 1


Last(q) == q[Len(q)]

\* C12: in a successful return the entry of every executed task is the
\* response its latest execution produced, and that execution ran under the
\* task's current incarnation, the highest it was ever executed under.
C12_LastIncarnationResponse ==
    ReturnedOk =>
        \A i \in TaskIds :
            execIncs[i] # <<>> =>
                /\ ret.resp[i] = produced[i]
                /\ Last(execIncs[i]) = tasks[i].Incarnation
                /\ \A k \in 1 .. Len(execIncs[i]) : execIncs[i][k] <= tasks[i].Incarnation

\* C12 witness: a task executed under an earlier incarnation was executed
\* again, with a response other than the one a first execution gives, and the
\* list was returned
C12_Witness ==
    /\ ReturnedOk
    /\ \E i \in TaskIds :
        /\ Len(execIncs[i]) = 2
        /\ ret.resp[i] # DeliverTxResp(0, tasks[i].Request)


\* C13: ProcessAll always returns; when it returns for a non-empty batch and
\* the context was never cancelled, it returns the responses in index order
\* after exactly one execution round and one validation, every task having
\* been executed once, under incarnation 0.
C13_OneRound ==
    /\ <>ret.returned
    /\ []((ret.returned /\ ~ctxDone /\ reqs # <<>>) =>
            /\ ReturnedOk
            /\ log.exec = 1
            /\ log.valid = 1
            /\ \A t \in TaskIds : execIncs[t] = <<0>> /\ calls[t] = 1
            /\ ret.resp = [i \in 1 .. Len(reqs) |-> produced[i]])

\* C13 witness: a batch of two has returned without cancellation
C13_Witness ==
    /\ ret.returned
    /\ ~ctxDone
    /\ Len(reqs) = 2
    /\ log.valid = 1


\* the transitions of the task state machine, with the component that makes
\* each: a worker during a round, the validator, the retry step
AllowedTransition(from, to, at) ==
    \/ from = statusPending /\ to \in {statusExecuted, statusAborted} /\ at = "wait"
    \/ from = statusExecuted /\ to \in {statusValidated, statusAborted} /\ at = "validate"
    \/ from = statusAborted /\ to = statusPending /\ at = "retry"

\* C14: every task starts pending, every change of a task's status is a
\* transition of the state machine made by the component that owns it (so no
\* pending task is ever set to validated), and when ProcessAll returns
\* successfully every task is validated.
C14_StatusStateMachine ==
    /\ [](pc = "loop" /\ log.exec = 0 =>
            \A t \in TaskIds : tasks[t].Status = statusPending)
    /\ [](ReturnedOk => \A t \in TaskIds : tasks[t].Status = statusValidated)
    /\ [][\A t \in TaskIds :
            tasks'[t].Status # tasks[t].Status =>
                AllowedTransition(tasks[t].Status, tasks'[t].Status, pc)]_vars

\* C14 witness: a batch of two was executed, validated and returned
C14_Witness ==
    /\ ReturnedOk
    /\ Len(tasks) = 2
    /\ \A t \in TaskIds : tasks[t].Status = statusValidated
    /\ log.retry = 1


C16_NoWorkAfterCancel ==
    [][(pc = "wait" /\ gDone) =>
        /\ ch' = ch
        /\ calls' = calls
        /\ \A w \in Workers : wpc[w] = "select" => wpc'[w] \in {"select", "returned"}]_vars


Executing == {w \in Workers : wpc[w] = "deliver"}

\* C17: during a round the number of tasks inside the execution function at
\* once never exceeds the configured worker count when that is 1 or more, and
\* never exceeds the number of tasks of the round when it is below 1.
C17_BoundedParallelism ==
    pc = "wait" =>
        /\ sworkers >= 1 => Cardinality(Executing) <= sworkers
        /\ sworkers < 1 => Cardinality(Executing) <= Len(toExecute)
        /\ Cardinality(Executing) <= Len(toExecute)

\* C17 witness: one configured worker is inside the execution function while
\* the second task of the batch waits in the channel
C17_Witness ==
    /\ pc = "wait"
    /\ sworkers = 1
    /\ Len(toExecute) = 2
    /\ Cardinality(Executing) = 1
    /\ ch = <<2>>


\* a goroutine of a round that has not returned yet
GoroutineRunning ==
    \/ ppc = "send"
    \/ \E w \in Workers : wpc[w] # "returned"

\* C18: outside executeAll (at the error check, in validateAll, in the retry
\* step, at the loop head and collectResponses, after the return) no worker
\* and no producer of any round is still running or holds a task, also when
\* the round returned an error; tasks change only in one phase at a time.
C18_PhasesDoNotOverlap ==
    /\ [](pc # "wait" =>
            /\ ~GoroutineRunning
            /\ \A w \in Workers : wtask[w] = 0)
    /\ [][tasks' # tasks =>
            \/ pc = "entry"
            \/ pc = "wait" /\ pc' = "wait" /\ GoroutineRunning
            \/ pc \in {"validate", "retry"} /\ ~GoroutineRunning]_vars

\* C18 witness: a round returned an error after a worker had executed a task
\* and every goroutine had returned
C18_Witness ==
    /\ pc = "checkErr"
    /\ err # NoError
    /\ nworkers = 2
    /\ \E t \in TaskIds : tasks[t].Status = statusExecuted
    /\ \E t \in TaskIds : tasks[t].Status = statusPending


\* C19: executeAll returns no error only if every task handed to it has been
\* executed (status executed, response stored, nothing left in the channel or
\* in a worker's hands); a round that left a task unexecuted returned an
\* error; collectResponses is reached only when every task has a response,
\* so it never dereferences a nil response.
C19_NoErrorMeansAllExecuted ==
    /\ (pc = "checkErr" /\ err = NoError) =>
        /\ \A t \in Range(toExecute) :
            /\ tasks[t].Status = statusExecuted
            /\ tasks[t].Response # NilResponse
            /\ calls[t] >= 1
        /\ ch = <<>>
        /\ pidx > Len(toExecute)
    /\ (pc = "checkErr" /\ \E t \in Range(toExecute) : tasks[t].Status = statusPending)
        => err # NoError
    /\ (pc = "loop" /\ Len(toExecute) = 0) => ~collectPanics(tasks)
    /\ pc # "panic"

\* C19 witness: the context was cancelled while a task of the round was not
\* yet executed, and the round of two tasks still returned no error
C19_Witness ==
    /\ pc = "checkErr"
    /\ err = NoError
    /\ log.cancelMid
    /\ Len(toExecute) = 2


\* C20: an execution round never deadlocks. Whatever the worker count, the
\* interleaving and the moment of cancellation, as long as runnable goroutines
\* are scheduled and deliverTx returns, a round that has started reaches the
\* point where the producer and every worker have returned, and executeAll
\* then returns to ProcessAll.
C20_RoundTerminates ==
    /\ (pc = "wait") ~> (pc = "wait" /\ AllReturned)
    /\ (pc = "wait") ~> (pc = "checkErr")

\* C20 witness: a round with more workers than tasks, cancelled on the way,
\* has returned
C20_Witness ==
    /\ pc = "checkErr"
    /\ nworkers > Len(toExecute)
    /\ err = Canceled
    /\ \E t \in Range(toExecute) : tasks[t].Status = statusExecuted

=============================================================================
